---- MODULE Spec2Model ----
(***************************************************************************)
(* Model of the accessibility agent (src/agent.py) and of the chat bot    *)
(* that drives it (src/bot.py).                                            *)
(*                                                                         *)
(* The agent is one module-level object shared by every on_message        *)
(* handler.  Each handler is an asyncio task: it holds the event loop      *)
(* until it reaches an await that really suspends (a Discord request or a *)
(* language-model request), and then any other handler may run.  The       *)
(* Selenium and Azure calls are blocking calls and never suspend.          *)
(* So an action of the model is what one handler does from the reply it    *)
(* was waiting for up to its next suspending await: the code in between   *)
(* is written as operators from a state record to the set of states it    *)
(* may lead to, and RunSync composes them.                                 *)
(***************************************************************************)
EXTENDS Integers, Sequences, FiniteSets, TLC

----------------------------------------------------------------------------
(* Bounds of the model *)

\* number of messages the user sends
MaxMessages == 3
\* number of distinct status messages the channel can hold
MaxMsgs == 2
\* longest document of the locator specification
MaxDom == 2
\* longest candidate list find_best_match is called with
MaxCands == 2
\* number of heading, p and div elements of the extracted document
MaxElems == 3
\* number of words and phrases of the text parse_user_command is called with
MaxWords == 3

\* the on_message handlers that may be in flight together
Tasks == {1, 2}

----------------------------------------------------------------------------
(* Strings are sequences of characters *)

\* the fold table of the XPath translate() call, cut to the model's alphabet
Lower(c) == CASE c = "A" -> "a" [] c = "B" -> "b" [] OTHER -> c

lower(s) == [i \in 1..Len(s) |-> Lower(s[i])]

contains(s, sub) ==
    \E i \in 0..(Len(s) - Len(sub)) : SubSeq(s, i + 1, i + Len(sub)) = sub

Min(S) == CHOOSE x \in S : \A y \in S : x <= y

Last(s) == s[Len(s)]

Front(s) == SubSeq(s, 1, Len(s) - 1)

\* str.split(): the maximal runs of characters that are not white space
RECURSIVE Split(_, _, _)
Split(s, word, words) ==
    LET closed == IF word = << >> THEN words ELSE Append(words, word)
    IN  IF s = << >> THEN closed
        ELSE IF Head(s) = " " THEN Split(Tail(s), << >>, closed)
        ELSE Split(Tail(s), Append(word, Head(s)), words)

split(s) == Split(s, << >>, << >>)

\* ' '.join(words)
RECURSIVE join(_)
join(words) ==
    IF words = << >> THEN << >>
    ELSE IF Len(words) = 1 THEN words[1]
    ELSE words[1] \o << " " >> \o join(Tail(words))

\* str.strip()
RECURSIVE strip(_)
strip(s) ==
    IF s = << >> THEN s
    ELSE IF Head(s) = " " THEN strip(Tail(s))
    ELSE IF Last(s) = " " THEN strip(Front(s))
    ELSE s

\* ''.join(strings)
RECURSIVE concat(_)
concat(strings) ==
    IF strings = << >> THEN << >> ELSE Head(strings) \o concat(Tail(strings))

\* normalize_text: lowercase, white space collapsed and trimmed
normalize_text(text) == join(split(lower(text)))

\* value of an attribute the element does not carry
NoAttr == <<"#">>

----------------------------------------------------------------------------
(* The rendered document: a sequence of elements in document order.       *)
(* tag: "a" (a link), "h2" (a heading) or "div" (anything else);          *)
(* text: the visible text; label: its aria-label, title or alt attribute; *)
(* clickable: displayed and enabled; href: where a click leads ("" when   *)
(* a click does not navigate).                                             *)

\* By.LINK_TEXT: a link whose visible text is the target
LinkText(e, target) == e.tag = "a" /\ e.text = target

\* By.PARTIAL_LINK_TEXT: a link whose visible text contains the target
PartialLinkText(e, target) == e.tag = "a" /\ contains(e.text, target)

\* the XPath of stage 3: any element whose case-folded text is, or contains,
\* the lowercased target
TextXPath(e, target) ==
    \/ lower(e.text) = lower(target)
    \/ contains(lower(e.text), lower(target))

\* the XPath of stage 4: @aria-label, @title or @alt equal to the target
LabelXPath(e, target) == e.label = target

StageMatches(stage, e, target) ==
    CASE stage = 1 -> LinkText(e, target)
      [] stage = 2 -> PartialLinkText(e, target)
      [] stage = 3 -> TextXPath(e, target)
      [] stage = 4 -> LabelXPath(e, target)

\* WebDriverWait(driver, 2).until(EC.element_to_be_clickable(locator)):
\* find_element yields the first match in document order; the wait succeeds
\* only when that element is displayed and enabled, and otherwise times out.
\* The result is the element's position, 0 for TimeoutException.
WaitClickable(dom, stage, target) ==
    LET found == {i \in 1..Len(dom) : StageMatches(stage, dom[i], target)}
    IN  IF found = {} THEN 0
        ELSE IF dom[Min(found)].clickable THEN Min(found) ELSE 0

\* a faulty cascade that gives up after the text search
find_and_click_element_three(dom, target) ==
    LET hits == {s \in 1..3 : WaitClickable(dom, s, target) # 0}
    IN  IF hits = {} THEN [element |-> 0, tried |-> <<1, 2, 3>>, raised |-> FALSE]
        ELSE [element |-> WaitClickable(dom, Min(hits), target),
              tried |-> [i \in 1..Min(hits) |-> i], raised |-> FALSE]

\* a faulty cascade: a later stage's element replaces an earlier one's
find_and_click_element_last(dom, target) ==
    LET hits == {s \in 1..4 : WaitClickable(dom, s, target) # 0}
        Max(S) == CHOOSE x \in S : \A y \in S : y <= x
    IN  IF hits = {} THEN [element |-> 0, tried |-> <<1, 2, 3, 4>>, raised |-> FALSE]
        ELSE [element |-> WaitClickable(dom, Max(hits), target),
              tried |-> [i \in 1..Max(hits) |-> i], raised |-> FALSE]

\* find_and_click_element: four try blocks in a row, each returning its
\* element or swallowing its exception; tried lists the stages attempted.
find_and_click_element(dom, target) ==
    LET e1 == WaitClickable(dom, 1, target)
        e2 == WaitClickable(dom, 2, target)
        e3 == WaitClickable(dom, 3, target)
        e4 == WaitClickable(dom, 4, target)
    IN  IF e1 # 0 THEN [element |-> e1, tried |-> <<1>>, raised |-> FALSE]
        ELSE IF e2 # 0 THEN [element |-> e2, tried |-> <<1, 2>>, raised |-> FALSE]
        ELSE IF e3 # 0 THEN [element |-> e3, tried |-> <<1, 2, 3>>, raised |-> FALSE]
        ELSE IF e4 # 0 THEN [element |-> e4, tried |-> <<1, 2, 3, 4>>, raised |-> FALSE]
        ELSE [element |-> 0, tried |-> <<1, 2, 3, 4>>, raised |-> FALSE]

\* the heading search of navigate_to_section: an h1, h2 or h3 whose text
\* contains the target (presence only, case-sensitive)
SectionHeading(dom, target) ==
    \E i \in 1..Len(dom) : dom[i].tag = "h2" /\ contains(dom[i].text, target)

----------------------------------------------------------------------------
(* The web the browser can reach *)

BlankUrl == "about:blank"
\* the pages that load
Pages == {"A", "B"}
\* a URL whose load raises
BadUrl == "X"
None == "None"

El(tag, text, label, clickable, href) ==
    [tag |-> tag, text |-> text, label |-> label, clickable |-> clickable,
     href |-> href]

\* what the browser renders at each URL
Dom(url) ==
    CASE url = "A" -> << El("h2", <<"a", "b">>, NoAttr, TRUE, ""),
                         El("a", <<"B", "a">>, NoAttr, TRUE, "B") >>
      [] url = "B" -> << El("a", <<"a", "B", "a">>, NoAttr, TRUE, "A") >>
      [] OTHER -> << >>

\* number of img elements with a src at each URL
Images(url) == CASE url = "A" -> 1 [] OTHER -> 0

\* the targets the language model may name
Targets == { <<"B", "a">>, <<"a", "b">>, <<"b", "b">> }

----------------------------------------------------------------------------
(* State *)

VARIABLES
    current_url,            \* self.current_url
    current_page_content,   \* self.current_page_content
    navigation_history,     \* self.navigation_history
    status_message,         \* self.status_message: a message id, 0 for None
    driver,                 \* the browser's session history; it shows Last(driver)
    channel,                \* the status messages sent and not deleted
    task,                   \* the on_message handlers and their local variables
    undo,                   \* history: what each click not yet undone replaced
    received,               \* number of messages received so far
    loc,                    \* the locator specification's input and output
    call                    \* a function called on its own: input and output

vars == << current_url, current_page_content, navigation_history,
           status_message, driver, channel, task, undo, received, loc, call >>

NoPage == [doc |-> None, base |-> None]

MsgIds == 1..MaxMsgs

\* a handler's local variables; parsed tells whether parse_user_command has
\* run on its message; descriptions is the list describe_specific_images
\* builds; result and fault record how the last message ended and stay until
\* the next one
IdleTask ==
    [pc |-> "idle", ret |-> "", msg |-> "", url |-> None, action |-> "",
     target |-> << >>, element |-> 0, stale |-> FALSE, left |-> 0,
     parsed |-> FALSE, descriptions |-> << >>, result |-> "", fault |-> ""]

LocOff == [phase |-> "off", dom |-> << >>, target |-> << >>,
           out |-> [element |-> 0, tried |-> << >>, raised |-> FALSE]]

CallOff == [phase |-> "off", arg |-> << >>, out |-> << >>]

\* __init__
Init ==
    /\ current_url = None
    /\ current_page_content = NoPage
    /\ navigation_history = << >>
    /\ status_message = 0
    /\ driver = << BlankUrl >>
    /\ channel = {}
    /\ task = [t \in Tasks |-> IdleTask]
    /\ undo = << >>
    /\ received = 0
    /\ loc = LocOff
    /\ call = CallOff

\* the state as handler t sees it: the agent's fields (cu, page, hist, sm),
\* the browser (drv), the channel (ch), its own locals (me), and whether the
\* browser left the page it showed when the step began (gone)
State(t) ==
    [cu |-> current_url, page |-> current_page_content,
     hist |-> navigation_history, sm |-> status_message, drv |-> driver,
     ch |-> channel, undo |-> undo, me |-> task[t], gone |-> FALSE]

\* handler t ends its step in one of the states of S; when the browser left
\* its page, the element handles the other handlers hold go stale
Apply(t, S) ==
    \E s \in S :
       /\ current_url' = s.cu
       /\ current_page_content' = s.page
       /\ navigation_history' = s.hist
       /\ status_message' = s.sm
       /\ driver' = s.drv
       /\ channel' = s.ch
       /\ undo' = s.undo
       /\ task' = [u \in Tasks |->
                     IF u = t THEN s.me
                     ELSE IF s.gone /\ task[u].element # 0
                          THEN [task[u] EXCEPT !.stale = TRUE]
                          ELSE task[u]]
       /\ UNCHANGED << loc, call >>

\* every step but the arrival of a message
Step(t, S) == Apply(t, S) /\ UNCHANGED received

At(st, pc) == [st EXCEPT !.me.pc = pc]

Result(st, pc, result) == [st EXCEPT !.me.pc = pc, !.me.result = result]

\* the page model extract_page_content builds: the document the browser
\* shows, its relative image sources resolved against self.current_url
extract_page_content(drv, base) == [doc |-> Last(drv), base |-> base]

----------------------------------------------------------------------------
(* The status indicator *)

\* the id Discord gives the next status message
FreshId(st) == Min(MsgIds \ (st.ch \cup {st.sm}))

\* the outcomes of await self.status_message.delete() inside try/except: a
\* delete can succeed only on a message that is still there, and a failed
\* delete leaves the message in the channel
Delete(st) ==
    { [st EXCEPT !.ch = IF deleted THEN @ \ {st.sm} ELSE @] :
        deleted \in IF st.sm \in st.ch THEN BOOLEAN ELSE {FALSE} }

\* set_status up to channel.send
set_status(st, ret) ==
    { [s EXCEPT !.me.pc = "set_status_send", !.me.ret = ret] :
        s \in IF st.sm # 0 THEN Delete(st) ELSE {st} }

\* the except clause a raise inside set_status reaches
Handler(ret) ==
    IF ret \in {"driver_get", "navigate_extract"} THEN "navigate_except"
    ELSE "outer_except"

\* self.status_message = await channel.send(...): the send is outside any
\* try, so its exception leaves set_status
set_status_send(st, sent) ==
    IF sent
    THEN IF MsgIds \ (st.ch \cup {st.sm}) = {} THEN {}
         ELSE { [st EXCEPT !.ch = @ \cup {FreshId(st)}, !.sm = FreshId(st),
                           !.me.pc = st.me.ret, !.me.ret = ""] }
    ELSE { [st EXCEPT !.me.pc = Handler(st.me.ret), !.me.ret = "",
                      !.me.fault = "status"] }

\* clear_status up to the delete; with no status it returns at once
clear_status(st, ret) ==
    IF st.sm # 0
    THEN { [s EXCEPT !.me.pc = "clear_status_deleted", !.me.ret = ret] :
             s \in Delete(st) }
    ELSE { At(st, ret) }

\* a faulty clear_status that keeps a status message whose delete failed
clear_status_kept(st) ==
    { [st EXCEPT !.sm = IF st.sm \in st.ch THEN st.sm ELSE 0,
                 !.me.pc = st.me.ret, !.me.ret = ""] }

\* self.status_message = None, after the delete
clear_status_deleted(st) ==
    { [st EXCEPT !.sm = 0, !.me.pc = st.me.ret, !.me.ret = ""] }

----------------------------------------------------------------------------
(* run and process_user_input *)

\* process_user_input up to its first await: a URL in the text, no page
\* yet, parse_user_command and then the summarize command or the intent
\* request
ProcessUserInput(st) ==
    IF st.me.msg = "url"
    THEN set_status([st EXCEPT !.me.msg = ""], "navigate_to_url")
    ELSE IF st.page = NoPage
    THEN { [st EXCEPT !.me.msg = "", !.me.pc = "run_clear_status",
                      !.me.result = "prompt"] }
    ELSE IF st.me.msg = "summarize"
    THEN { [st EXCEPT !.me.msg = "", !.me.parsed = TRUE,
                      !.me.pc = "summarize_page"] }
    ELSE { [st EXCEPT !.me.msg = "", !.me.parsed = TRUE,
                      !.me.pc = "classify_intent"] }

\* the clear_status of run()
RunClearStatus(st) == clear_status(st, "run_return")

\* run() returns and on_message sends the response
RunReturn(st) ==
    { [st EXCEPT !.me = [IdleTask EXCEPT !.result = st.me.result,
                                         !.fault = st.me.fault]] }

\* the outer except clause of process_user_input
OuterExcept(st) ==
    clear_status([st EXCEPT !.me.result = "error", !.me.element = 0,
                            !.me.stale = FALSE, !.me.left = 0,
                            !.me.descriptions = << >>, !.me.url = None],
                 "run_clear_status")

----------------------------------------------------------------------------
(* navigate_to_url *)

\* navigate_to_url up to its first set_status
NavigateToUrl(st) == set_status(st, "driver_get")

\* a faulty load that records the page it leaves, as a click does
DriverGetPushing(st) ==
    IF st.me.url \in Pages
    THEN set_status([st EXCEPT !.drv = Append(@, st.me.url),
                               !.cu = st.me.url,
                               !.hist = Append(@, st.cu),
                               !.undo = Append(@, [url |-> st.cu,
                                                   hist |-> st.hist]),
                               !.me.url = None, !.gone = TRUE],
                    "navigate_extract")
    ELSE { [st EXCEPT !.me.pc = "navigate_except", !.me.url = None] }

\* self.driver.get(url), which raises on a URL that does not load;
\* self.current_url = url; then the second set_status
DriverGet(st) ==
    IF st.me.url \in Pages
    THEN set_status([st EXCEPT !.drv = Append(@, st.me.url),
                               !.cu = st.me.url,
                               !.me.url = None, !.gone = TRUE],
                    "navigate_extract")
    ELSE { [st EXCEPT !.me.pc = "navigate_except", !.me.url = None] }

\* self.current_page_content = self.extract_page_content(), which may raise;
\* then clear_status
NavigateExtract(st) ==
    clear_status([st EXCEPT !.page = extract_page_content(st.drv, st.cu)],
                 "navigate_ok")
    \cup { At(st, "navigate_except") }

\* the except clause of navigate_to_url
NavigateExcept(st) == clear_status([st EXCEPT !.me.url = None], "navigate_failed")

\* navigate_to_url returns the page model: get_compact_page_description
NavigateOk(st) == { Result(st, "describe", "page") }

\* navigate_to_url returns the error string
NavigateFailed(st) == { Result(st, "run_clear_status", "nav_failed") }

----------------------------------------------------------------------------
(* The actions process_user_input dispatches on *)

Actions == {"navigate_to_url", "describe_page", "describe_section",
            "describe_images", "click_link", "go_back", "answer_question",
            "other"}

\* the intents the language model may return
Intents ==
    { [action |-> a, url |-> u, target |-> g] :
        a \in Actions, u \in Pages \cup {BadUrl, None}, g \in Targets \cup {<< >>} }

\* the reply of the intent request and json.loads: the request may raise, the
\* reply may not be JSON (the fallback intent), may be JSON without "action"
\* (KeyError at the first intent['action']) or an intent
ClassifyIntentReply(st, reply, intent) ==
    CASE reply \in {"raise", "no_action"} -> { At(st, "outer_except") }
      [] reply = "not_json" ->
           { [st EXCEPT !.me.pc = "dispatch", !.me.action = "answer_question"] }
      [] reply = "intent" ->
           { [st EXCEPT !.me.pc = "dispatch", !.me.action = intent.action,
                        !.me.url = intent.url, !.me.target = intent.target] }

\* an intent's locals once its branch is chosen
Taken(st) == [st EXCEPT !.me.action = "", !.me.target = << >>]

\* intent['action'] == 'navigate_to_url'
NavigateIntent(st) == set_status(Taken(st), "navigate_to_url")

\* intent['action'] == 'describe_page'
DescribePage(st) == { Result(Taken(st), "describe", "described") }

\* where a click on element e of the shown page leaves the browser
ClickOn(drv, e) == IF e.href # "" THEN Append(drv, e.href) ELSE drv

\* navigate_to_section, which never awaits.  A heading that contains the
\* target is scrolled to; otherwise the locator's element is clicked and the
\* page model rebuilt, nothing else.  Every exception inside is caught.
navigate_to_section(st, target) ==
    LET dom == Dom(Last(st.drv))
        found == find_and_click_element(dom, target).element
    IN  IF SectionHeading(dom, target) \/ found = 0
        THEN { [st EXCEPT !.me.result = "section"] }
        ELSE LET drv == ClickOn(st.drv, dom[found])
                 clicked == [st EXCEPT !.drv = drv, !.gone = (drv # st.drv),
                                       !.me.result = "section_clicked"]
             IN  { [clicked EXCEPT !.page = extract_page_content(drv, st.cu)],
                   clicked }

\* intent['action'] == 'describe_section': navigate_to_section, then the
\* description request
DescribeSection(st) ==
    { At(Taken(s), "describe_section") :
        s \in navigate_to_section(st, st.me.target) }

\* the reply of the section description request, which may raise
DescribeSectionReply(st, replied) ==
    { At(st, IF replied THEN "run_clear_status" ELSE "outer_except") }

\* intent['action'] == 'answer_question'
AnswerQuestion(st) == { At(Taken(st), "answer") }

\* the reply of the answer request, which may raise
AnswerReply(st, replied) ==
    { IF replied THEN Result(st, "run_clear_status", "answer")
                 ELSE At(st, "outer_except") }

\* no branch matches the action
Unsure(st) == { Result(Taken(st), "run_clear_status", "unsure") }

----------------------------------------------------------------------------
(* click_link and go_back *)

\* intent['action'] == 'click_link' up to the set_status, or the not-found
\* reply when the locator returns None
ClickLink(st) ==
    LET found == find_and_click_element(Dom(Last(st.drv)), st.me.target).element
    IN  IF found # 0
        THEN set_status([Taken(st) EXCEPT !.me.element = found,
                                          !.me.stale = FALSE], "click")
        ELSE { Result(Taken(st), "run_clear_status", "ElementNotFound") }

\* a faulty click that records the page it arrives at
ClickPushingNew(st) ==
    IF st.me.stale
    THEN { [st EXCEPT !.me.pc = "outer_except"] }
    ELSE LET e == Dom(Last(st.drv))[st.me.element]
             drv == ClickOn(st.drv, e)
         IN  { [st EXCEPT !.drv = drv, !.gone = (drv # st.drv),
                          !.hist = Append(@, Last(drv)),
                          !.undo = Append(@, [url |-> st.cu, hist |-> st.hist]),
                          !.page = extract_page_content(drv, st.cu),
                          !.cu = Last(drv),
                          !.me.element = 0, !.me.pc = "describe",
                          !.me.result = "clicked"] }

\* element.click(), which raises on a stale element; the history push; the
\* extraction, which may raise; self.current_url = self.driver.current_url
Click(st) ==
    IF st.me.stale
    THEN { [st EXCEPT !.me.pc = "outer_except"] }
    ELSE LET e == Dom(Last(st.drv))[st.me.element]
             drv == ClickOn(st.drv, e)
             pushed == [st EXCEPT !.drv = drv, !.gone = (drv # st.drv),
                                  !.hist = Append(@, st.cu),
                                  !.undo = Append(@, [url |-> st.cu,
                                                      hist |-> st.hist]),
                                  !.me.element = 0]
         IN  { [pushed EXCEPT !.page = extract_page_content(drv, st.cu),
                              !.cu = Last(drv),
                              !.me.pc = "describe", !.me.result = "clicked"],
               At(pushed, "outer_except") }

\* a faulty go_back that does not look at the history first
GoBackUnchecked(st) == set_status(Taken(st), "back")

\* intent['action'] == 'go_back' up to the set_status, or the first-page
\* reply when the history is empty
GoBack(st) ==
    IF st.hist = << >>
    THEN { Result(Taken(st), "run_clear_status", "NoHistory") }
    ELSE set_status(Taken(st), "back")

\* where driver.back() leaves the browser
DriverBack(drv) == IF Len(drv) > 1 THEN Front(drv) ELSE drv

\* a faulty back that reads the top of the history without removing it
BackPeeking(st) ==
    LET drv == DriverBack(st.drv)
    IN  IF st.hist = << >> THEN { At(st, "outer_except") }
        ELSE { [st EXCEPT !.drv = drv, !.gone = (drv # st.drv),
                          !.cu = Last(st.hist), !.undo = Front(st.undo),
                          !.page = extract_page_content(drv, Last(st.hist)),
                          !.me.pc = "describe", !.me.result = "back"] }

\* self.driver.back(); self.current_url = self.navigation_history.pop(),
\* IndexError when another handler emptied the history meanwhile; the
\* extraction, which may raise
Back(st) ==
    LET drv == DriverBack(st.drv)
        back == [st EXCEPT !.drv = drv, !.gone = (drv # st.drv)]
    IN  IF st.hist = << >>
        THEN { At(back, "outer_except") }
        ELSE LET popped == [back EXCEPT !.cu = Last(st.hist),
                                        !.hist = Front(st.hist),
                                        !.undo = Front(st.undo)]
             IN  { [popped EXCEPT
                       !.page = extract_page_content(drv, Last(st.hist)),
                       !.me.pc = "describe", !.me.result = "back"],
                   At(popped, "outer_except") }

----------------------------------------------------------------------------
(* describe_specific_images *)

\* intent['action'] == 'describe_images': the first set_status
DescribeImages(st) == set_status(Taken(st), "images_check")

\* the image list is read once; with none the status is cleared, otherwise
\* the loop over at most count = 3 images starts
ImagesCheck(st) ==
    LET n == Images(st.page.doc)
    IN  IF n = 0
        THEN clear_status([st EXCEPT !.me.result = "no_images"],
                          "run_clear_status")
        ELSE set_status([st EXCEPT !.me.left = IF n < 3 THEN n ELSE 3],
                        "caption")

\* what describe_image returns: the first caption, the text that stands for
\* an empty caption list, or the text of the exception it caught
Captions == {"caption", "unable", "error"}

\* describe_image, a blocking call that returns a non-empty string whatever
\* happens, so that an entry is appended every time; then the next image's
\* set_status or the final clear_status
Caption(st) ==
    UNION { LET described == [st EXCEPT !.me.descriptions = Append(@, desc)]
            IN  IF st.me.left > 1
                THEN set_status([described EXCEPT !.me.left = @ - 1], "caption")
                ELSE clear_status([described EXCEPT !.me.left = 0,
                                                    !.me.result = "images"],
                                  "run_clear_status") :
            desc \in Captions }

----------------------------------------------------------------------------
(* The event loop *)

\* the places where a handler is suspended
AwaitPcs == {"idle", "is_conversational_prompt", "get_conversational_response",
             "summarize_page", "classify_intent", "describe", "describe_section",
             "answer", "set_status_send", "clear_status_deleted"}

\* the branch process_user_input takes on intent['action']
Dispatch(st) ==
    CASE st.me.action = "navigate_to_url" -> NavigateIntent(st)
      [] st.me.action = "describe_page" -> DescribePage(st)
      [] st.me.action = "describe_section" -> DescribeSection(st)
      [] st.me.action = "describe_images" -> DescribeImages(st)
      [] st.me.action = "click_link" -> ClickLink(st)
      [] st.me.action = "go_back" -> GoBack(st)
      [] st.me.action = "answer_question" -> AnswerQuestion(st)
      [] OTHER -> Unsure(st)

\* the code that runs next, by where the handler is
SyncStep(st) ==
    CASE st.me.pc = "process_user_input" -> ProcessUserInput(st)
      [] st.me.pc = "dispatch" -> Dispatch(st)
      [] st.me.pc = "navigate_to_url" -> NavigateToUrl(st)
      [] st.me.pc = "driver_get" -> DriverGet(st)
      [] st.me.pc = "navigate_extract" -> NavigateExtract(st)
      [] st.me.pc = "navigate_except" -> NavigateExcept(st)
      [] st.me.pc = "navigate_ok" -> NavigateOk(st)
      [] st.me.pc = "navigate_failed" -> NavigateFailed(st)
      [] st.me.pc = "click" -> Click(st)
      [] st.me.pc = "back" -> Back(st)
      [] st.me.pc = "images_check" -> ImagesCheck(st)
      [] st.me.pc = "caption" -> Caption(st)
      [] st.me.pc = "outer_except" -> OuterExcept(st)
      [] st.me.pc = "run_clear_status" -> RunClearStatus(st)
      [] st.me.pc = "run_return" -> RunReturn(st)

\* a handler runs until it is suspended
RECURSIVE RunSync(_)
RunSync(S) ==
    IF \A st \in S : st.me.pc \in AwaitPcs THEN S
    ELSE RunSync(UNION { IF st.me.pc \in AwaitPcs THEN {st} ELSE SyncStep(st) :
                           st \in S })

\* on_message up to the first request of run(): is_conversational_prompt
OnMessage(t) ==
    /\ task[t].pc = "idle"
    /\ received < MaxMessages
    /\ received' = received + 1
    /\ \E msg \in {"url", "summarize", "text"} :
       \E url \in IF msg = "url" THEN Pages \cup {BadUrl} ELSE {None} :
          Apply(t, { [State(t) EXCEPT
                        !.me = [IdleTask EXCEPT !.pc = "is_conversational_prompt",
                                                !.msg = msg, !.url = url]] })

\* the reply of is_conversational_prompt
IsConversationalPrompt(t) ==
    /\ task[t].pc = "is_conversational_prompt"
    /\ \E conversational \in BOOLEAN :
         Step(t, RunSync({ At(State(t),
                               IF conversational
                               THEN "get_conversational_response"
                               ELSE "process_user_input") }))

\* the reply of get_conversational_response: run() returns it when there is
\* one, without clearing the status
GetConversationalResponse(t) ==
    /\ task[t].pc = "get_conversational_response"
    /\ \E response \in BOOLEAN :
         Step(t, RunSync({ IF response
                            THEN [State(t) EXCEPT
                                    !.me = [IdleTask EXCEPT
                                              !.result = "conversational"]]
                            ELSE At(State(t), "process_user_input") }))

\* the reply of summarize_page, whose exceptions it catches
SummarizePage(t) ==
    /\ task[t].pc = "summarize_page"
    /\ Step(t, RunSync({ Result(State(t), "run_clear_status", "summary") }))

\* the reply of the intent request
ClassifyIntent(t) ==
    /\ task[t].pc = "classify_intent"
    /\ \E reply \in {"raise", "not_json", "no_action", "intent"} :
       \E intent \in Intents :
          /\ intent.url # None <=> intent.action = "navigate_to_url"
          /\ intent.target # << >> <=>
                intent.action \in {"describe_section", "click_link"}
          /\ Step(t, RunSync(ClassifyIntentReply(State(t), reply, intent)))

\* the reply of get_compact_page_description, whose exceptions it catches
Describe(t) ==
    /\ task[t].pc = "describe"
    /\ Step(t, RunSync({ At(State(t), "run_clear_status") }))

\* the reply of the section description request
DescribeSectionDone(t) ==
    /\ task[t].pc = "describe_section"
    /\ \E replied \in BOOLEAN :
         Step(t, RunSync(DescribeSectionReply(State(t), replied)))

\* the reply of the answer request
Answer(t) ==
    /\ task[t].pc = "answer"
    /\ \E replied \in BOOLEAN :
         Step(t, RunSync(AnswerReply(State(t), replied)))

\* channel.send returns or raises inside set_status
SetStatusSend(t) ==
    /\ task[t].pc = "set_status_send"
    /\ \E sent \in BOOLEAN :
         Step(t, RunSync(set_status_send(State(t), sent)))

\* the delete of clear_status returns or raises
ClearStatusDeleted(t) ==
    /\ task[t].pc = "clear_status_deleted"
    /\ Step(t, RunSync(clear_status_deleted(State(t))))

Next ==
    \E t \in Tasks :
       \/ OnMessage(t)
       \/ IsConversationalPrompt(t)
       \/ GetConversationalResponse(t)
       \/ SummarizePage(t)
       \/ ClassifyIntent(t)
       \/ Describe(t)
       \/ DescribeSectionDone(t)
       \/ Answer(t)
       \/ SetStatusSend(t)
       \/ ClearStatusDeleted(t)

Spec == Init /\ [][Next]_vars

\* the messages handled one at a time: a message is sent only after the
\* reply to the one before, so that a single on_message handler is in flight
NextAlone ==
    LET t == Min(Tasks)
    IN  \/ OnMessage(t)
        \/ IsConversationalPrompt(t)
        \/ GetConversationalResponse(t)
        \/ SummarizePage(t)
        \/ ClassifyIntent(t)
        \/ Describe(t)
        \/ DescribeSectionDone(t)
        \/ Answer(t)
        \/ SetStatusSend(t)
        \/ ClearStatusDeleted(t)

SpecAlone == Init /\ [][NextAlone]_vars

----------------------------------------------------------------------------
(* The locator on its own: any document of up to MaxDom elements *)

LocElements ==
    { El(tag, text, label, clickable, "") :
        tag \in {"a", "div"}, text \in { <<"a">>, <<"A", "b">> },
        label \in { NoAttr, <<"b">> }, clickable \in BOOLEAN }

LocDoms == UNION { [1..n -> LocElements] : n \in 0..MaxDom }

LocTargets == { <<"a">>, <<"A">>, <<"b">> }

LocInit ==
    /\ current_url = None
    /\ current_page_content = NoPage
    /\ navigation_history = << >>
    /\ status_message = 0
    /\ driver = << BlankUrl >>
    /\ channel = {}
    /\ task = [t \in Tasks |-> IdleTask]
    /\ undo = << >>
    /\ received = 0
    /\ loc \in { [LocOff EXCEPT !.phase = "ready", !.dom = d, !.target = g] :
                   d \in LocDoms, g \in LocTargets }
    /\ call = CallOff

\* one call of find_and_click_element
Locate ==
    /\ loc.phase = "ready"
    /\ loc' = [loc EXCEPT !.phase = "done",
                          !.out = find_and_click_element(loc.dom, loc.target)]
    /\ UNCHANGED << current_url, current_page_content, navigation_history,
                    status_message, driver, channel, task, undo, received,
                    call >>

SpecLocate == LocInit /\ [][Locate]_vars

----------------------------------------------------------------------------
(* find_best_match on its own.  A score is a fraction << n, d >>. *)

Gt(x, y) == x[1] * y[2] > y[1] * x[2]

Ge(x, y) == x[1] * y[2] >= y[1] * x[2]

\* set(text.split())
WordSet(text) == { split(text)[i] : i \in 1..Len(split(text)) }

\* a faulty loop in which a later candidate of equal score replaces the best
BestMatchLoopLast(target, candidates, threshold) ==
    LET Loop[i \in 1..(Len(candidates) + 1), best \in 0..Len(candidates)] ==
          LET score(k) ==
                IF k = 0 THEN << 0, 1 >>
                ELSE << Cardinality(WordSet(target) \cap
                                    WordSet(normalize_text(candidates[k]))),
                        Cardinality(WordSet(target)) >>
          IN  IF i > Len(candidates)
              THEN [match |-> best, score |-> score(best)]
              ELSE IF target = normalize_text(candidates[i])
              THEN [match |-> i, score |-> << 1, 1 >>]
              ELSE IF /\ WordSet(target) # {}
                      /\ Ge(score(i), score(best))
                      /\ Ge(score(i), threshold)
              THEN Loop[i + 1, i]
              ELSE Loop[i + 1, best]
    IN  Loop[1, 0]

\* the loop of find_best_match over the candidates: an exact match returns
\* at once with 1.0; otherwise the overlap ratio replaces the best score when
\* it is strictly greater and reaches the threshold.  match is the position
\* of the candidate returned, 0 for None.
BestMatchLoop(target, candidates, threshold) ==
    LET Loop[i \in 1..(Len(candidates) + 1), best \in 0..Len(candidates)] ==
          LET score(k) ==
                IF k = 0 THEN << 0, 1 >>
                ELSE << Cardinality(WordSet(target) \cap
                                    WordSet(normalize_text(candidates[k]))),
                        Cardinality(WordSet(target)) >>
          IN  IF i > Len(candidates)
              THEN [match |-> best, score |-> score(best)]
              ELSE IF target = normalize_text(candidates[i])
              THEN [match |-> i, score |-> << 1, 1 >>]
              ELSE IF /\ WordSet(target) # {}
                      /\ Gt(score(i), score(best))
                      /\ Ge(score(i), threshold)
              THEN Loop[i + 1, i]
              ELSE Loop[i + 1, best]
    IN  Loop[1, 0]

find_best_match(target, candidates, threshold) ==
    BestMatchLoop(normalize_text(target), candidates, threshold)

\* the texts the matcher is called with
MatchTexts ==
    { << >>, << " " >>, << "a" >>, << "A", " " >>, << "b" >>,
      << "a", " ", "b" >>, << "B", " ", " ", "a" >>, << "a", " ", "c" >> }

MatchCandidates == UNION { [1..n -> MatchTexts] : n \in 0..MaxCands }

\* the default threshold 0.5, and 1
Thresholds == { << 1, 2 >>, << 1, 1 >> }

Fresh ==
    /\ current_url = None
    /\ current_page_content = NoPage
    /\ navigation_history = << >>
    /\ status_message = 0
    /\ driver = << BlankUrl >>
    /\ channel = {}
    /\ task = [t \in Tasks |-> IdleTask]
    /\ undo = << >>
    /\ received = 0
    /\ loc = LocOff

MatchInit ==
    /\ Fresh
    /\ call \in { [CallOff EXCEPT !.phase = "ready",
                                  !.arg = [target |-> g, candidates |-> c,
                                           threshold |-> h]] :
                    g \in MatchTexts, c \in MatchCandidates, h \in Thresholds }

\* one call of find_best_match
Match ==
    /\ call.phase = "ready"
    /\ call' = [call EXCEPT !.phase = "done",
                            !.out = find_best_match(call.arg.target,
                                                    call.arg.candidates,
                                                    call.arg.threshold)]
    /\ UNCHANGED << current_url, current_page_content, navigation_history,
                    status_message, driver, channel, task, undo, received, loc >>

SpecMatch == MatchInit /\ [][Match]_vars

----------------------------------------------------------------------------
(* The sectioned text of extract_page_content on its own.  The document is *)
(* what soup.find_all(['h1', 'h2', 'h3', 'p', 'div']) yields, in document  *)
(* order: each element has a name, "h2" for a heading and "p" for a p or   *)
(* div, and the text strings below it.                                     *)

\* the key of the section that is open before any heading
MainContent == << "Main Content" >>

\* elem.text.strip()
HeadingText(elem) == strip(concat(elem.strings))

\* ' '.join(elem.stripped_strings): the strings that are not blank, stripped
ContainerText(elem) ==
    LET stripped == [i \in 1..Len(elem.strings) |-> strip(elem.strings[i])]
    IN  join(SelectSeq(stripped, LAMBDA x : x # << >>))

\* a faulty pass that drops a text only when the section holds the same text
MainTextSame(doc) ==
    LET Pass[i \in 0..Len(doc)] ==
          IF i = 0
          THEN [current |-> MainContent, keys |-> << MainContent >>,
                text |-> [k \in {MainContent} |-> << >>]]
          ELSE LET m == Pass[i - 1]
                   elem == doc[i]
               IN  IF elem.name = "h2"
                   THEN LET key == HeadingText(elem)
                        IN  IF key \in DOMAIN m.text
                            THEN [m EXCEPT !.current = key]
                            ELSE [current |-> key, keys |-> Append(m.keys, key),
                                  text |-> [k \in DOMAIN m.text \cup {key} |->
                                              IF k = key THEN << >> ELSE m.text[k]]]
                   ELSE LET text == ContainerText(elem)
                            seen == \E j \in 1..Len(m.text[m.current]) :
                                       m.text[m.current][j] = text
                        IN  IF text # << >> /\ ~seen
                            THEN [m EXCEPT !.text[m.current] = Append(@, text)]
                            ELSE m
    IN  Pass[Len(doc)]

\* content['main_text']: the forward pass over the elements.  A heading
\* switches the current section and creates its list when the key is new; a
\* container's text is appended to the current section's list unless it is
\* empty or some entry of that list contains it.
MainText(doc) ==
    LET Pass[i \in 0..Len(doc)] ==
          IF i = 0
          THEN [current |-> MainContent, keys |-> << MainContent >>,
                text |-> [k \in {MainContent} |-> << >>]]
          ELSE LET m == Pass[i - 1]
                   elem == doc[i]
               IN  IF elem.name = "h2"
                   THEN LET key == HeadingText(elem)
                        IN  IF key \in DOMAIN m.text
                            THEN [m EXCEPT !.current = key]
                            ELSE [current |-> key, keys |-> Append(m.keys, key),
                                  text |-> [k \in DOMAIN m.text \cup {key} |->
                                              IF k = key THEN << >> ELSE m.text[k]]]
                   ELSE LET text == ContainerText(elem)
                            seen == \E j \in 1..Len(m.text[m.current]) :
                                       contains(m.text[m.current][j], text)
                        IN  IF text # << >> /\ ~seen
                            THEN [m EXCEPT !.text[m.current] = Append(@, text)]
                            ELSE m
    IN  Pass[Len(doc)]

\* the text strings an element may hold
ElemStrings ==
    { << >>, << << "a" >> >>, << << " ", "b" >> >>,
      << << "a" >>, << " ", "b" >> >> }

ExtractElems == { [name |-> n, strings |-> x] : n \in {"h2", "p"}, x \in ElemStrings }

ExtractDocs == UNION { [1..n -> ExtractElems] : n \in 0..MaxElems }

ExtractInit ==
    /\ Fresh
    /\ call \in { [CallOff EXCEPT !.phase = "ready", !.arg = d] : d \in ExtractDocs }

\* one pass of extract_page_content over a document
Extract ==
    /\ call.phase = "ready"
    /\ call' = [call EXCEPT !.phase = "done", !.out = MainText(call.arg)]
    /\ UNCHANGED << current_url, current_page_content, navigation_history,
                    status_message, driver, channel, task, undo, received, loc >>

SpecExtract == ExtractInit /\ [][Extract]_vars

----------------------------------------------------------------------------
(* parse_user_command.  A pattern is the sequence of the pieces of its      *)
(* regular expression: "alt", one of the literals, tried in order; "opt",   *)
(* an optional literal, taken when the rest matches with it; "quote", an    *)
(* optional quote character; "group", the lazy group ([^"']+?), which takes *)
(* the fewest characters the rest matches with; "end", (?:\s|$).            *)

Quotes == { "\"", "'" }

\* literal lit stands in s at position pos
LitAt(s, pos, lit) ==
    pos + Len(lit) - 1 <= Len(s) /\ SubSeq(s, pos, pos + Len(lit) - 1) = lit

NoMatch == [ok |-> FALSE, group |-> << >>]

\* the match of the pieces from i on at position pos, as the backtracking
\* matcher of re finds it; group is the text group 1 has captured
RECURSIVE MatchFrom(_, _, _, _, _)
MatchFrom(pat, i, s, pos, group) ==
    IF i > Len(pat) THEN [ok |-> TRUE, group |-> group]
    ELSE
      LET piece == pat[i]
          after(n) == MatchFrom(pat, i + 1, s, pos + n, group)
      IN  CASE piece.k = "alt" ->
                 LET fits == { j \in 1..Len(piece.lits) :
                                 /\ LitAt(s, pos, piece.lits[j])
                                 /\ after(Len(piece.lits[j])).ok }
                 IN  IF fits = {} THEN NoMatch
                     ELSE after(Len(piece.lits[Min(fits)]))
            [] piece.k = "opt" ->
                 IF LitAt(s, pos, piece.lits[1]) /\ after(Len(piece.lits[1])).ok
                 THEN after(Len(piece.lits[1]))
                 ELSE after(0)
            [] piece.k = "quote" ->
                 IF pos <= Len(s) /\ s[pos] \in Quotes /\ after(1).ok
                 THEN after(1)
                 ELSE after(0)
            [] piece.k = "group" ->
                 LET taken(n) == MatchFrom(pat, i + 1, s, pos + n,
                                           SubSeq(s, pos, pos + n - 1))
                     fits == { n \in 1..(Len(s) - pos + 1) :
                                 /\ \A j \in pos..(pos + n - 1) : s[j] \notin Quotes
                                 /\ taken(n).ok }
                 IN  IF fits = {} THEN NoMatch ELSE taken(Min(fits))
            [] piece.k = "end" ->
                 IF pos <= Len(s)
                 THEN IF s[pos] = " " THEN after(1) ELSE NoMatch
                 ELSE after(0)

\* re.search: the match at the leftmost position where there is one
search(pat, s) ==
    LET starts == { pos \in 1..(Len(s) + 1) : MatchFrom(pat, 1, s, pos, << >>).ok }
    IN  IF starts = {} THEN NoMatch
        ELSE MatchFrom(pat, 1, s, Min(starts), << >>)

\* the phrases of special_commands, in the order of the dictionary
BackPhrases ==
    << << "b", "a", "c", "k" >>,
    << "p", "r", "e", "v", "i", "o", "u", "s", " ", "p", "a", "g", "e" >>,
    << "g", "o", " ", "b", "a", "c", "k" >>,
    << "r", "e", "t", "u", "r", "n" >> >>

DescribeImagesPhrases ==
    << << "d", "e", "s", "c", "r", "i", "b", "e", " ", "i", "m", "a", "g", "e" >>,
    << "s", "h", "o", "w", " ", "i", "m", "a", "g", "e" >>,
    << "w", "h", "a", "t", " ", "i", "s", " ", "i", "n", " ", "t", "h", "e", " ", "i", "m", "a", "g", "e" >> >>

SummarizePhrases ==
    << << "s", "u", "m", "m", "a", "r", "i", "z", "e" >>,
    << "s", "u", "m", "m", "a", "r", "y" >>,
    << "s", "u", "m", "m", "a", "r", "i", "z", "e", " ", "t", "h", "i", "s" >>,
    << "s", "u", "m", "m", "a", "r", "i", "z", "e", " ", "p", "a", "g", "e" >>,
    << "c", "a", "n", " ", "y", "o", "u", " ", "s", "u", "m", "m", "a", "r", "i", "z", "e" >> >>

\* any(phrase in input_lower for phrase in phrases)
AnyPhraseIn(phrases, s) == \E i \in 1..Len(phrases) : contains(s, phrases[i])

\* section_patterns[0]
SectionPattern1 ==
    << [k |-> "opt", lits |-> << << "c", "a", "n", " ", "y", "o", "u", " " >> >>],
       [k |-> "alt", lits |-> << << "g", "o" >>, << "s", "h", "o", "w" >>,
            << "n", "a", "v", "i", "g", "a", "t", "e" >>,
            << "t", "a", "k", "e" >> >>],
       [k |-> "alt", lits |-> << << " " >> >>],
       [k |-> "opt", lits |-> << << "m", "e", " " >> >>],
       [k |-> "opt", lits |-> << << "t", "o", " " >> >>],
       [k |-> "opt", lits |-> << << "t", "h", "e", " " >> >>],
       [k |-> "quote", lits |-> <<  >>],
       [k |-> "group", lits |-> <<  >>],
       [k |-> "quote", lits |-> <<  >>],
       [k |-> "alt", lits |-> << << " ", "s", "e", "c", "t", "i", "o", "n" >> >>] >>

\* section_patterns[1]
SectionPattern2 ==
    << [k |-> "alt", lits |-> << << "s", "h", "o", "w" >>,
            << "d", "i", "s", "p", "l", "a", "y" >>, << "r", "e", "a", "d" >>,
            << "v", "i", "e", "w" >>, << "o", "p", "e", "n" >> >>],
       [k |-> "alt", lits |-> << << " " >> >>],
       [k |-> "opt", lits |-> << << "t", "h", "e", " " >> >>],
       [k |-> "quote", lits |-> <<  >>],
       [k |-> "group", lits |-> <<  >>],
       [k |-> "quote", lits |-> <<  >>],
       [k |-> "alt", lits |-> << << " ", "s", "e", "c", "t", "i", "o", "n" >> >>] >>

\* section_patterns[2]
SectionPattern3 ==
    << [k |-> "quote", lits |-> <<  >>],
       [k |-> "group", lits |-> <<  >>],
       [k |-> "quote", lits |-> <<  >>],
       [k |-> "alt", lits |-> << << " ", "s", "e", "c", "t", "i", "o", "n" >> >>] >>

\* navigation_patterns[0]
NavigationPattern1 ==
    << [k |-> "opt", lits |-> << << "c", "a", "n", " ", "y", "o", "u", " " >> >>],
       [k |-> "alt", lits |-> << << "g", "o" >>, << "n", "a", "v", "i", "g", "a", "t", "e" >>,
            << "t", "a", "k", "e" >> >>],
       [k |-> "alt", lits |-> << << " " >> >>],
       [k |-> "opt", lits |-> << << "m", "e", " " >> >>],
       [k |-> "opt", lits |-> << << "t", "o", " " >> >>],
       [k |-> "opt", lits |-> << << "t", "h", "e", " " >> >>],
       [k |-> "quote", lits |-> <<  >>],
       [k |-> "group", lits |-> <<  >>],
       [k |-> "quote", lits |-> <<  >>],
       [k |-> "end", lits |-> <<  >>] >>

\* navigation_patterns[1]
NavigationPattern2 ==
    << [k |-> "alt", lits |-> << << "s", "h", "o", "w" >>,
            << "d", "i", "s", "p", "l", "a", "y" >>,
            << "o", "p", "e", "n" >> >>],
       [k |-> "alt", lits |-> << << " " >> >>],
       [k |-> "opt", lits |-> << << "t", "h", "e", " " >> >>],
       [k |-> "quote", lits |-> <<  >>],
       [k |-> "group", lits |-> <<  >>],
       [k |-> "quote", lits |-> <<  >>],
       [k |-> "end", lits |-> <<  >>] >>

\* navigation_patterns[2]
NavigationPattern3 ==
    << [k |-> "alt", lits |-> << << "c", "l", "i", "c", "k" >>,
            << "s", "e", "l", "e", "c", "t" >>,
            << "c", "h", "o", "o", "s", "e" >> >>],
       [k |-> "alt", lits |-> << << " " >> >>],
       [k |-> "opt", lits |-> << << "o", "n", " " >> >>],
       [k |-> "opt", lits |-> << << "t", "h", "e", " " >> >>],
       [k |-> "quote", lits |-> <<  >>],
       [k |-> "group", lits |-> <<  >>],
       [k |-> "quote", lits |-> <<  >>],
       [k |-> "end", lits |-> <<  >>] >>

section_patterns == << SectionPattern1, SectionPattern2, SectionPattern3 >>

navigation_patterns ==
    << NavigationPattern1, NavigationPattern2, NavigationPattern3 >>

\* a key the returned dictionary does not hold
Absent == << "absent" >>

\* the dictionary of a section or navigation command
Command(type, match) ==
    [type |-> type, target |-> strip(match.group),
     original_text |-> strip(match.group)]

\* the first pattern of the list that is found in s, 0 when none is
FirstFound(patterns, s) ==
    LET found == { i \in 1..Len(patterns) : search(patterns[i], s).ok }
    IN  IF found = {} THEN 0 ELSE Min(found)

\* a faulty classifier that tries the navigation patterns before the
\* section patterns
parse_user_command_swapped(user_input) ==
    LET input_lower == normalize_text(user_input)
        section == FirstFound(section_patterns, input_lower)
        navigation == FirstFound(navigation_patterns, input_lower)
    IN  IF AnyPhraseIn(BackPhrases, input_lower)
        THEN [type |-> "back", target |-> Absent, original_text |-> Absent]
        ELSE IF AnyPhraseIn(DescribeImagesPhrases, input_lower)
        THEN [type |-> "describe_images", target |-> Absent,
              original_text |-> Absent]
        ELSE IF AnyPhraseIn(SummarizePhrases, input_lower)
        THEN [type |-> "summarize", target |-> Absent, original_text |-> Absent]
        ELSE IF navigation # 0
        THEN Command("navigation",
                     search(navigation_patterns[navigation], input_lower))
        ELSE IF section # 0
        THEN Command("section", search(section_patterns[section], input_lower))
        ELSE [type |-> "unknown", target |-> Absent,
              original_text |-> user_input]

\* parse_user_command: the special commands, then the section patterns,
\* then the navigation patterns, each loop returning at its first hit
parse_user_command(user_input) ==
    LET input_lower == normalize_text(user_input)
        section == FirstFound(section_patterns, input_lower)
        navigation == FirstFound(navigation_patterns, input_lower)
    IN  IF AnyPhraseIn(BackPhrases, input_lower)
        THEN [type |-> "back", target |-> Absent, original_text |-> Absent]
        ELSE IF AnyPhraseIn(DescribeImagesPhrases, input_lower)
        THEN [type |-> "describe_images", target |-> Absent,
              original_text |-> Absent]
        ELSE IF AnyPhraseIn(SummarizePhrases, input_lower)
        THEN [type |-> "summarize", target |-> Absent, original_text |-> Absent]
        ELSE IF section # 0
        THEN Command("section", search(section_patterns[section], input_lower))
        ELSE IF navigation # 0
        THEN Command("navigation",
                     search(navigation_patterns[navigation], input_lower))
        ELSE [type |-> "unknown", target |-> Absent,
              original_text |-> user_input]

\* the words and phrases the user's text is made of
Vocabulary ==
    { << "g", "o" >>, << "o", "p", "e", "n" >>, << "c", "l", "i", "c", "k" >>,
      << "t", "h", "e" >>, << "s", "i", "g", "n" >>, << "u", "p" >>,
      << "s", "e", "c", "t", "i", "o", "n" >>, << "b", "a", "c", "k" >>,
      << "s", "u", "m", "m", "a", "r", "y" >>,
      << "s", "h", "o", "w", " ", "i", "m", "a", "g", "e" >>, << "A", " " >> }

\* the texts of up to MaxWords of them, one space in between
RECURSIVE Phrases(_)
Phrases(n) ==
    IF n = 0 THEN { << >> }
    ELSE Phrases(n - 1) \cup
         { IF p = << >> THEN w ELSE p \o << " " >> \o w :
             p \in Phrases(n - 1), w \in Vocabulary }

ParseInit ==
    /\ Fresh
    /\ call \in { [CallOff EXCEPT !.phase = "ready", !.arg = x] :
                    x \in Phrases(MaxWords) }

\* one call of parse_user_command
Parse ==
    /\ call.phase = "ready"
    /\ call' = [call EXCEPT !.phase = "done", !.out = parse_user_command(call.arg)]
    /\ UNCHANGED << current_url, current_page_content, navigation_history,
                    status_message, driver, channel, task, undo, received, loc >>

SpecParse == ParseInit /\ [][Parse]_vars

----------------------------------------------------------------------------
(* Properties *)

\* handler t is the one that takes the step
Acts(t) ==
    \/ task'[t].pc # task[t].pc
    \/ task'[t].ret # task[t].ret
    \/ task'[t].left # task[t].left

\* handler t's message gets its outcome in this step
Did(t, result) == task[t].result # result /\ task'[t].result = result

\* C1: a click_link that succeeds pushes exactly the URL current_url held
\* before the click, then current_url is the browser's URL and the page model
\* is extracted from the page the browser shows; when the locator finds
\* nothing, history, current_url and page model stay as they were.
C1_ClickPushesAndReplaces ==
    [][\A t \in Tasks :
         /\ Did(t, "clicked") =>
              /\ navigation_history' = Append(navigation_history, current_url)
              /\ current_url' = Last(driver')
              /\ current_page_content'.doc = Last(driver')
         /\ Did(t, "ElementNotFound") =>
              UNCHANGED << navigation_history, current_url, current_page_content,
                           driver >>]_vars

\* a click through a link has succeeded: the browser is on B, A was pushed
C1_Witness ==
    \E t \in Tasks :
       /\ task[t].result = "clicked"
       /\ task[t].pc = "describe"
       /\ current_url = "B"
       /\ navigation_history = << "A" >>

\* the steps a handler takes inside navigate_to_url
InNavigateToUrl(t) ==
    \/ /\ task[t].pc = "set_status_send"
       /\ task[t].ret \in {"navigate_to_url", "driver_get", "navigate_extract"}
    \/ /\ task[t].pc = "clear_status_deleted"
       /\ task[t].ret \in {"navigate_ok", "navigate_failed"}

\* C2: no step of navigate_to_url, whether it ends well or in its except
\* clause, changes the navigation history.
C2_NavigateKeepsHistory ==
    [][\A t \in Tasks :
         Acts(t) /\ InNavigateToUrl(t) =>
            navigation_history' = navigation_history]_vars

\* a navigation has ended well while the history held an entry
C2_Witness ==
    \E t \in Tasks :
       /\ task[t].result = "page"
       /\ navigation_history # << >>

\* C3: go_back on an empty history replies NoHistory without asking the
\* browser to go back and without touching current_url, the page model, the
\* history or the status; it never goes on to the back's set_status.
C3_BackOnEmptyHistory ==
    [][\A t \in Tasks :
         /\ Did(t, "NoHistory") =>
              /\ navigation_history = << >>
              /\ UNCHANGED << driver, current_url, current_page_content,
                              navigation_history, status_message >>
         /\ (Acts(t) /\ task[t].pc = "classify_intent"
                     /\ navigation_history = << >>) =>
              ~(task'[t].pc = "set_status_send" /\ task'[t].ret = "back")]_vars

\* go_back was refused on a loaded page
C3_Witness ==
    \E t \in Tasks :
       /\ task[t].result = "NoHistory"
       /\ current_page_content # NoPage
       /\ navigation_history = << >>

C5_BackShowsPoppedUrl ==
    [][\A t \in Tasks :
         Did(t, "back") =>
            /\ Last(driver') = current_url'
            /\ current_page_content'.doc = current_url']_vars

\* C6: wherever an element the locator returned is clicked, the URL from
\* before the click is pushed and current_url becomes the browser's URL.
C6_EveryClickPushes ==
    [][\A t \in Tasks :
         (Did(t, "clicked") \/ Did(t, "section_clicked")) =>
            /\ navigation_history' = Append(navigation_history, current_url)
            /\ current_url' = Last(driver')]_vars

\* handler t is past the two conversational requests of run(): it has
\* entered process_user_input and not yet returned
InProcessUserInput(t) ==
    task[t].pc \notin {"idle", "is_conversational_prompt",
                       "get_conversational_response"}

\* C7: two messages are never inside process_user_input together.
C7_NotPipelined ==
    \A t, u \in Tasks :
       t # u => ~(InProcessUserInput(t) /\ InProcessUserInput(u))

\* C8: the channel never holds more than one status message.
C8_OneStatus == Cardinality(channel) <= 1

\* C9: a message whose status send raised does not end in failure.
C9_StatusNeverFails ==
    \A t \in Tasks :
       task[t].fault = "status" => task[t].result \notin {"nav_failed", "error"}

\* the lowest stage of the cascade whose wait succeeds, 0 when none does
FirstHit(dom, target) ==
    LET hits == {s \in 1..4 : WaitClickable(dom, s, target) # 0}
    IN  IF hits = {} THEN 0 ELSE Min(hits)

\* C10: the locator tries stages 1, 2, 3, 4 in this order, stops at the
\* first whose wait succeeds and returns its element; when none succeeds it
\* has tried all four and returns None; it never raises.
C10_LocatorCascade ==
    loc.phase = "done" =>
       LET k == FirstHit(loc.dom, loc.target)
       IN  /\ ~loc.out.raised
           /\ k = 0 => /\ loc.out.element = 0
                       /\ loc.out.tried = << 1, 2, 3, 4 >>
           /\ k # 0 => /\ loc.out.element = WaitClickable(loc.dom, k, loc.target)
                       /\ loc.out.tried = [i \in 1..k |-> i]

\* stage 3 won although stage 4 would have found another element
C10_Witness ==
    /\ loc.phase = "done"
    /\ FirstHit(loc.dom, loc.target) = 3
    /\ WaitClickable(loc.dom, 4, loc.target) # 0
    /\ WaitClickable(loc.dom, 4, loc.target) # loc.out.element

\* some element carries the target as its aria-label, title or alt
LabelMatches(dom, target) ==
    \E i \in 1..Len(dom) : LabelXPath(dom[i], target)

LanguageRequests ==
    {"is_conversational_prompt", "get_conversational_response",
     "summarize_page", "classify_intent", "describe", "describe_section",
     "answer"}

\* C12: a handler that has sent a request to the language model has run
\* parse_user_command on its message before.
C12_ClassifierFirst ==
    \A t \in Tasks : task[t].pc \in LanguageRequests => task[t].parsed

\* C14: the step that receives the intent reply never ends the command in
\* the error reply, whether the request raised or the reply had another
\* shape than expected.
C14_IntentFallback ==
    [][\A t \in Tasks :
         task[t].pc = "classify_intent" => task'[t].result # "error"]_vars

\* C15: when describe-images completes, its list holds no entry for an image
\* whose captioning failed.
C15_FailedCaptionLeavesNoEntry ==
    [][\A t \in Tasks :
         Did(t, "images") =>
            \A i \in 1..Len(task'[t].descriptions) :
               task'[t].descriptions[i] # "error"]_vars

\* C19: after a navigate, a click or a back that ends well, the images of the
\* page model are resolved against the URL current_url then holds.
C19_ImagesResolvedAgainstCurrentUrl ==
    [][\A t \in Tasks :
         (Did(t, "page") \/ Did(t, "clicked") \/ Did(t, "back")) =>
            (Images(current_page_content'.doc) > 0 =>
                current_page_content'.base = current_url')]_vars

\* the score of candidate i of the call: 1.0 for exact normalized equality,
\* else the share of the target's words the candidate holds
Score(i) ==
    LET target == normalize_text(call.arg.target)
        candidate == normalize_text(call.arg.candidates[i])
    IN  IF target = candidate THEN << 1, 1 >>
        ELSE IF WordSet(target) = {} THEN << 0, 1 >>
        ELSE << Cardinality(WordSet(target) \cap WordSet(candidate)),
                Cardinality(WordSet(target)) >>

\* the candidates of the call that attain the highest score
Top ==
    { i \in 1..Len(call.arg.candidates) :
        \A j \in 1..Len(call.arg.candidates) : Ge(Score(i), Score(j)) }

\* the candidates of the call equal to the target once both are normalized
Exact ==
    { i \in 1..Len(call.arg.candidates) :
        normalize_text(call.arg.candidates[i]) = normalize_text(call.arg.target) }

\* two or more candidates share the highest score, which is positive and
\* reaches the threshold
Tie ==
    /\ Cardinality(Top) >= 2
    /\ \A i \in Top : Gt(Score(i), << 0, 1 >>) /\ Ge(Score(i), call.arg.threshold)

\* C17 as stated: when two or more candidates share the highest score, 1.0
\* included, the first of them in the sequence is returned.
C17_FirstWinsTies ==
    (call.phase = "done" /\ Tie) =>
        /\ call.out.match # 0
        /\ call.arg.candidates[call.out.match] = call.arg.candidates[Min(Top)]

\* C17: when two or more candidates share the highest score and none equals
\* the target exactly, the first of them is returned; when some candidate
\* equals the target exactly, the first such candidate is returned with 1.0.
C17_FirstWinsTiesUnlessExact ==
    call.phase = "done" =>
        /\ (Exact = {} /\ Tie) => call.out.match = Min(Top)
        /\ Exact # {} => /\ call.out.match = Min(Exact)
                         /\ call.out.score = << 1, 1 >>

\* two candidates tied below 1.0 and the first was returned
C17_Witness ==
    /\ call.phase = "done"
    /\ Exact = {}
    /\ Tie
    /\ call.out.match = Min(Top)
    /\ call.out.match # 0

\* C18: the result is (None, 0) when the normalized target has no words or
\* no candidate's score reaches the threshold; otherwise it is a candidate
\* whose score reaches the threshold and is the highest, with that score.
C18_BestMatchResult ==
    call.phase = "done" =>
        LET n == Len(call.arg.candidates)
            none == \/ WordSet(normalize_text(call.arg.target)) = {}
                    \/ \A i \in 1..n : ~Ge(Score(i), call.arg.threshold)
        IN  IF none
            THEN call.out.match = 0 /\ call.out.score = << 0, 1 >>
            ELSE /\ call.out.match # 0
                 /\ Ge(Score(call.out.match), call.arg.threshold)
                 /\ \A i \in 1..n : Ge(Score(call.out.match), Score(i))
                 /\ Ge(call.out.score, Score(call.out.match))
                 /\ Ge(Score(call.out.match), call.out.score)

\* the section element i of the document falls in: the text of the last
\* heading before it
SectionOf(doc, i) ==
    LET heads == { j \in 1..(i - 1) : doc[j].name = "h2" }
    IN  IF heads = {} THEN MainContent
        ELSE HeadingText(doc[CHOOSE j \in heads : \A k \in heads : k <= j])

\* the containers of the document that fall in section key and have a text
Containers(doc, key) ==
    { i \in 1..Len(doc) :
        /\ doc[i].name = "p"
        /\ ContainerText(doc[i]) # << >>
        /\ SectionOf(doc, i) = key }

\* C20: in every section of the sectioned text, each entry is the text of a
\* container of that section, each container's text is held by some entry,
\* and no entry is a substring of an entry before it, so that equal texts
\* give one entry.
C20_SectionDedup ==
    call.phase = "done" =>
        \A key \in DOMAIN call.out.text :
           LET entries == call.out.text[key]
               inside == Containers(call.arg, key)
           IN  /\ \A j \in 1..Len(entries) :
                     \E i \in inside : ContainerText(call.arg[i]) = entries[j]
               /\ \A i \in inside :
                     \E j \in 1..Len(entries) :
                        contains(entries[j], ContainerText(call.arg[i]))
               /\ \A j, k \in 1..Len(entries) :
                     j < k => ~contains(entries[j], entries[k])

\* an outer container's text was kept and the text of the container nested
\* in it, met next, was dropped
C20_Witness ==
    /\ call.phase = "done"
    /\ \E key \in DOMAIN call.out.text :
          /\ Len(call.out.text[key]) = 1
          /\ \E i, j \in Containers(call.arg, key) :
                /\ i < j
                /\ ContainerText(call.arg[i]) # ContainerText(call.arg[j])
                /\ call.out.text[key] = << ContainerText(call.arg[i]) >>

\* the words of the text the classifier was called with, normalized
InputWords == split(normalize_text(call.arg))

\* the text is click, select or choose followed by a target of two or more
\* words that does not begin with the optional "on" or "the"
ClickPhrase ==
    /\ Len(InputWords) >= 3
    /\ InputWords[1] \in { << "c", "l", "i", "c", "k" >>,
                           << "s", "e", "l", "e", "c", "t" >>,
                           << "c", "h", "o", "o", "s", "e" >> }
    /\ InputWords[2] \notin { << "o", "n" >>, << "t", "h", "e" >> }

\* C13: when click, select or choose is followed by a bare target of several
\* words and the command is a navigation, its target is the whole phrase, as
\* in "click sign up".
C13_WholeTargetPhrase ==
    (call.phase = "done" /\ ClickPhrase /\ call.out.type = "navigation") =>
        call.out.target = join(Tail(InputWords))

\* rule k of the classifier applies to the normalized text s: the three
\* phrase lists, the three section patterns, the three navigation patterns
RuleApplies(k, s) ==
    CASE k = 1 -> AnyPhraseIn(BackPhrases, s)
      [] k = 2 -> AnyPhraseIn(DescribeImagesPhrases, s)
      [] k = 3 -> AnyPhraseIn(SummarizePhrases, s)
      [] k \in 4..6 -> search(section_patterns[k - 3], s).ok
      [] k \in 7..9 -> search(navigation_patterns[k - 6], s).ok

\* the first rule that applies, 0 when none does
FirstRule(s) ==
    LET rules == { k \in 1..9 : RuleApplies(k, s) }
    IN  IF rules = {} THEN 0 ELSE Min(rules)

Consistent(url, page) ==
    IF page = NoPage THEN url = None ELSE page.doc = url

\* C21: when navigate_to_url returns its error, the page model is that of
\* the page at current_url, or both are unset.
C21_FailedNavigateConsistent ==
    [][\A t \in Tasks :
         Did(t, "nav_failed") =>
            Consistent(current_url', current_page_content')]_vars

\* C22: when run() returns for a message handled alone, whatever path it
\* took, status_message is None.
C22_NoStatusSurvives ==
    [][\A t \in Tasks :
         (task[t].pc # "idle" /\ task'[t].pc = "idle") =>
            status_message' = 0]_vars

\* run() has returned after a command whose status message could not be
\* deleted: it is still in the channel and status_message is None
C22_Witness ==
    /\ \A t \in Tasks : task[t].pc = "idle"
    /\ \E t \in Tasks : task[t].result \in {"page", "clicked", "back", "error"}
    /\ channel # {}
    /\ status_message = 0

====
